---- MODULE Spec2Model ----
(***************************************************************************)
(* Model of dnf/modulemd_profile.py: installation profiles for modules.    *)
(*                                                                         *)
(* Python values are represented as follows.                               *)
(*  - str fields (name, arch, description, stream and profile names) are   *)
(*    TLA+ strings; the Python value None of such a field is None.         *)
(*  - the version string is a sequence of one-character strings, so that   *)
(*    str.split(".") and int() can be computed; None is NoVersion.         *)
(*  - release is a Python int; None is NoRelease.                          *)
(*  - a dict is a function; a set is a set; a list is a sequence.          *)
(*  - the outcome of a call is a string naming the returned value or the   *)
(*    raised exception, or a record [status, value].                       *)
(***************************************************************************)
EXTENDS Integers, Sequences, FiniteSets, TLC

VARIABLES
    a, b, res,          \* two profiles and the outcome of the last comparison
    lst, latest,        \* argument and outcome of latest_by_name
    dp, calls, dret,    \* a DefaultProfiles dict, the calls made on it, the last export
    md, owner, mcalls, mret, \* a ModuleDefaults object, the keys under which a
                        \* profile holds it, calls made on it, the last outcome
    prof, ret           \* an InstallationProfile and the outcome of the last call

vars == <<a, b, res, lst, latest, dp, calls, dret, md, owner, mcalls, mret, prof, ret>>

ordVars == <<a, b, res>>
latVars == <<lst, latest>>
dpVars == <<dp, calls, dret>>
mdVars == <<md, owner, mcalls, mret>>
profVars == <<prof, ret>>

---------------------------------------------------------------------------
(* Bounds of the model *)

MaxVerLen == 2
MaxRelease == 2
MaxList == 3
MaxCalls == 3

---------------------------------------------------------------------------
(* Python values *)

None == "None"
NoVersion == <<None>>
NoRelease == -1
NoList == <<None>>
\* an attribute that __init__ does not create and nothing has assigned yet
NoAttr == "<no attribute>"

EmptyDict == <<>>

Digits == {"0", "1", "2", "6", "7"}
DigitVal == [c \in Digits |-> CASE c = "0" -> 0 [] c = "1" -> 1 [] c = "2" -> 2
                                [] c = "6" -> 6 [] c = "7" -> 7]

\* Outcomes of a comparison: the three values __lt__/__eq__ return, and the
\* two exceptions they raise.
PyTrue == "True"
PyFalse == "False"
PyZero == "0"
ComparisonError == "ValueError: Can't compare installation profiles with different names"
FormatError == "ValueError: invalid literal for int() with base 10"

\* bool(x) of an outcome that is a value
Truthy(v) == v = PyTrue

---------------------------------------------------------------------------
(* InstallationProfile: construction, split_version, __eq__, __lt__ *)

IP_init ==
    [name |-> None, version |-> NoVersion, release |-> NoRelease,
     arch |-> None, description |-> None, modules |-> EmptyDict]

\* str.split("."): the components between the dots, "" (<<>>) included
RECURSIVE SplitFrom(_, _, _)
SplitFrom(s, i, cur) ==
    IF i > Len(s) THEN <<cur>>
    ELSE IF s[i] = "." THEN <<cur>> \o SplitFrom(s, i + 1, <<>>)
    ELSE SplitFrom(s, i + 1, Append(cur, s[i]))

StrSplit(s) == SplitFrom(s, 1, <<>>)

\* int(str) accepts a non-empty run of decimal digits (leading zeros allowed)
IntLiteral(w) == Len(w) > 0 /\ \A i \in 1..Len(w) : w[i] \in Digits

RECURSIVE IntOf(_)
IntOf(w) ==
    IF Len(w) = 0 THEN 0
    ELSE 10 * IntOf(SubSeq(w, 1, Len(w) - 1)) + DigitVal[w[Len(w)]]

\* [int(i) for i in self.version.split(".")]
split_version(p) ==
    LET parts == StrSplit(p.version)
    IN IF \A i \in 1..Len(parts) : IntLiteral(parts[i])
       THEN [ok |-> TRUE, v |-> [i \in 1..Len(parts) |-> IntOf(parts[i])]]
       ELSE [ok |-> FALSE, v |-> <<>>]

\* list comparison: the first index at which the items differ decides;
\* without one the lengths are compared
RECURSIVE FirstDiff(_, _, _)
FirstDiff(v, w, i) ==
    IF i > Len(v) \/ i > Len(w) THEN 0
    ELSE IF v[i] # w[i] THEN i
    ELSE FirstDiff(v, w, i + 1)

\* a bug the comparison could have: a strict prefix is not the lesser
ListLt_NoPrefix(v, w) ==
    LET i == FirstDiff(v, w, 1)
    IN IF i = 0 THEN FALSE ELSE v[i] < w[i]

ListLt(v, w) ==
    LET i == FirstDiff(v, w, 1)
    IN IF i = 0 THEN Len(v) < Len(w) ELSE v[i] < w[i]

ListGt(v, w) ==
    LET i == FirstDiff(v, w, 1)
    IN IF i = 0 THEN Len(v) > Len(w) ELSE v[i] > w[i]

\* int(x) of an int is that int
PyInt(x) == x

\* int(self.release)
IntRelease(p) == PyInt(p.release)

\* a bug __eq__ could have: the names are not checked
IP_eq_NoNameCheck(self, other) ==
    IF self.version = other.version /\ self.release = other.release
    THEN PyTrue ELSE PyFalse

IP_eq(self, other) ==
    IF self.name # other.name THEN ComparisonError
    ELSE IF self.version = other.version /\ self.release = other.release
         THEN PyTrue ELSE PyFalse

\* a bug __lt__ could have: the releases are not compared
IP_lt_NoReleaseTieBreak(self, other) ==
    IF self.name # other.name THEN ComparisonError
    ELSE LET sv == split_version(self)
             ov == split_version(other)
         IN IF ~sv.ok \/ ~ov.ok THEN FormatError
            ELSE IF ListLt(sv.v, ov.v) THEN PyTrue
            ELSE IF ListGt(sv.v, ov.v) THEN PyFalse
            ELSE PyZero

IP_lt(self, other) ==
    IF self.name # other.name THEN ComparisonError
    ELSE LET sv == split_version(self)
             ov == split_version(other)
         IN IF ~sv.ok \/ ~ov.ok THEN FormatError
            ELSE IF ListLt(sv.v, ov.v) THEN PyTrue
            ELSE IF ListGt(sv.v, ov.v) THEN PyFalse
            ELSE IF IntRelease(self) < IntRelease(other) THEN PyTrue
            ELSE IF IntRelease(self) < IntRelease(other) THEN PyFalse
            ELSE PyZero

\* self > other: the class is a dict, whose own __gt__ answers
\* NotImplemented and keeps total_ordering from deriving one, so the
\* interpreter evaluates the reflected other.__lt__(self)
IP_gt(self, other) == IP_lt(other, self)

---------------------------------------------------------------------------
(* Inputs of the comparison specification *)

Names == {"fedora-server", "fedora-workstation"}

VChars == {"0", "1", "."}

\* all strings over VChars of length 1..MaxVerLen
RECURSIVE StringsOfLen(_)
StringsOfLen(n) ==
    IF n = 0 THEN {<<>>}
    ELSE {Append(s, c) : s \in StringsOfLen(n - 1), c \in VChars}

GenVersions == UNION {StringsOfLen(n) : n \in 1..MaxVerLen}

\* the versions of the module docstring's upgrade paths, and two spellings
\* of one version
V26 == <<"2", "6">>
V26_1 == <<"2", "6", ".", "1">>
V26_2 == <<"2", "6", ".", "2">>
V27 == <<"2", "7">>
V26_0 == <<"2", "6", ".", "0">>
V26_00 == <<"2", "6", ".", "0", "0">>
DocVersions == {V26, V26_1, V26_2, V27, V26_0, V26_00}

Versions == GenVersions \cup DocVersions
Releases == 1..MaxRelease

Profile(n, v, r) == [IP_init EXCEPT !.name = n, !.version = v, !.release = r]

OrdProfiles == {Profile(n, v, r) : n \in Names, v \in Versions, r \in Releases}

NoCall == [op |-> "none", val |-> None]

---------------------------------------------------------------------------
(* Comparison specification: two profiles are compared with <, == and > *)


CallLt ==
    /\ res' = [op |-> "lt", val |-> IP_lt(a, b)]
    /\ UNCHANGED <<a, b, latVars, dpVars, mdVars, profVars>>

CallEq ==
    /\ res' = [op |-> "eq", val |-> IP_eq(a, b)]
    /\ UNCHANGED <<a, b, latVars, dpVars, mdVars, profVars>>

CallGt ==
    /\ res' = [op |-> "gt", val |-> IP_gt(a, b)]
    /\ UNCHANGED <<a, b, latVars, dpVars, mdVars, profVars>>

OrdNext == CallLt \/ CallEq \/ CallGt

---------------------------------------------------------------------------
(* latest_by_name *)

\* the names of a list's profiles in the order of their first occurrence:
\* the keys of the dict that setdefault() builds
RECURSIVE KeysInOrder(_)
KeysInOrder(l) ==
    IF Len(l) = 0 THEN <<>>
    ELSE LET front == KeysInOrder(SubSeq(l, 1, Len(l) - 1))
             n == l[Len(l)].name
         IN IF \E i \in 1..Len(front) : front[i] = n THEN front ELSE Append(front, n)

\* result[name]: the profiles of that name, in the order of the list
Group(l, n) == SelectSeq(l, LAMBDA p : p.name = n)

Raised(v) == v \in {ComparisonError, FormatError}

\* max(list): the first item is kept until a later item compares greater
\* a bug latest_by_name could have: min() in the place of max()
RECURSIVE MaxFrom_Min(_, _, _)
MaxFrom_Min(g, i, cur) ==
    IF i > Len(g) THEN [status |-> "ok", value |-> cur]
    ELSE LET c == IP_lt(g[i], cur)
         IN IF Raised(c) THEN [status |-> c, value |-> cur]
            ELSE IF Truthy(c) THEN MaxFrom_Min(g, i + 1, g[i])
            ELSE MaxFrom_Min(g, i + 1, cur)

PyMax_Min(g) == MaxFrom_Min(g, 2, g[1])

RECURSIVE MaxFrom(_, _, _)
MaxFrom(g, i, cur) ==
    IF i > Len(g) THEN [status |-> "ok", value |-> cur]
    ELSE LET c == IP_gt(g[i], cur)
         IN IF Raised(c) THEN [status |-> c, value |-> cur]
            ELSE IF Truthy(c) THEN MaxFrom(g, i + 1, g[i])
            ELSE MaxFrom(g, i + 1, cur)

PyMax(g) == MaxFrom(g, 2, g[1])

latest_by_name(l) ==
    LET keys == KeysInOrder(l)
        best == [i \in 1..Len(keys) |-> PyMax(Group(l, keys[i]))]
        bad == {i \in 1..Len(keys) : best[i].status # "ok"}
    IN IF bad # {}
       THEN [op |-> "latest_by_name",
             status |-> best[CHOOSE i \in bad : \A j \in bad : i <= j].status,
             value |-> EmptyDict]
       ELSE [op |-> "latest_by_name", status |-> "ok",
             value |-> [n \in {keys[i] : i \in 1..Len(keys)} |->
                          best[CHOOSE i \in 1..Len(keys) : keys[i] = n].value]]

---------------------------------------------------------------------------
(* Latest-selection specification: latest_by_name is applied to a list *)

LatVersions == {V26, V26_0, V26_1}

LatReleases == {1, 2}

LatProfiles == {Profile(n, v, r) : n \in Names, v \in LatVersions, r \in LatReleases}

RECURSIVE ListsOfLen(_, _)
ListsOfLen(S, n) ==
    IF n = 0 THEN {<<>>}
    ELSE {Append(l, x) : l \in ListsOfLen(S, n - 1), x \in S}

ListsUpTo(S, n) == UNION {[1..k -> S] : k \in 0..n}

NoLatest == [op |-> "none", status |-> "none", value |-> EmptyDict]

CallLatestByName ==
    /\ latest' = latest_by_name(lst)
    /\ UNCHANGED <<lst, ordVars, dpVars, mdVars, profVars>>

LatNext == CallLatestByName

---------------------------------------------------------------------------
(* dict, set and sorted() *)

Put(d, k, v) == [x \in (DOMAIN d) \cup {k} |-> IF x = k THEN v ELSE d[x]]

Pop(d, k) == [x \in (DOMAIN d) \ {k} |-> d[x]]

\* dict.update(): the entries of e replace and extend those of d
Update(d, e) == [x \in (DOMAIN d) \cup (DOMAIN e) |-> IF x \in DOMAIN e THEN e[x] ELSE d[x]]

\* set(list)
SetOf(l) == {l[i] : i \in 1..Len(l)}

Streams == {"f26", "f27"}
PNames == {"buildroot", "container"}

\* the position of each str of the model in the order < of str
Lex == [x \in Streams \cup PNames |->
          CASE x = "buildroot" -> 1 [] x = "container" -> 2
            [] x = "f26" -> 3 [] x = "f27" -> 4]

\* sorted(set): the items in ascending order
RECURSIVE Sorted(_)
Sorted(S) ==
    IF S = {} THEN <<>>
    ELSE LET least == CHOOSE x \in S : \A y \in S : Lex[x] <= Lex[y]
         IN <<least>> \o Sorted(S \ {least})

---------------------------------------------------------------------------
(* DefaultProfiles *)

\* self.setdefault(stream, set()).add(profile)
DP_add(d, stream, profile) ==
    IF stream \in DOMAIN d THEN Put(d, stream, d[stream] \cup {profile})
    ELSE Put(d, stream, {profile})

\* a bug set() could have: the new profiles are merged into the old ones
DP_set_Merge(d, stream, profiles) ==
    IF profiles = NoList THEN Pop(d, stream)
    ELSE IF stream \in DOMAIN d THEN Put(d, stream, d[stream] \cup SetOf(profiles))
    ELSE Put(d, stream, SetOf(profiles))

\* profiles is None (NoList) or a list
DP_set(d, stream, profiles) ==
    IF profiles = NoList THEN Pop(d, stream)
    ELSE Put(d, stream, SetOf(profiles))

DP_dumpd(d) == [k \in DOMAIN d |-> Sorted(d[k])]

\* self.clear(), then one set per key of the mapping
DP_loadd(d, m) == [k \in DOMAIN m |-> SetOf(m[k])]

---------------------------------------------------------------------------
(* Default-profiles specification: add, set and dumpd on one DefaultProfiles *)

\* the lists handed to set(): empty, one item, unsorted, with a duplicate
ProfileLists ==
    {<<>>, <<"container">>, <<"container", "buildroot">>, <<"buildroot", "buildroot">>}

NoExport == [status |-> "none", value |-> EmptyDict]

CallAdd ==
    \E s \in Streams, p \in PNames :
        /\ Len(calls) < MaxCalls
        /\ dp' = DP_add(dp, s, p)
        /\ calls' = Append(calls, [op |-> "add", stream |-> s, arg |-> <<p>>])
        /\ dret' = NoExport
        /\ UNCHANGED <<ordVars, latVars, mdVars, profVars>>

CallSet ==
    \E s \in Streams, l \in ProfileLists :
        /\ Len(calls) < MaxCalls
        /\ dp' = DP_set(dp, s, l)
        /\ calls' = Append(calls, [op |-> "set", stream |-> s, arg |-> l])
        /\ dret' = NoExport
        /\ UNCHANGED <<ordVars, latVars, mdVars, profVars>>

CallSetNone ==
    \E s \in Streams :
        /\ Len(calls) < MaxCalls
        /\ dp' = DP_set(dp, s, NoList)
        /\ calls' = Append(calls, [op |-> "unset", stream |-> s, arg |-> <<>>])
        /\ dret' = NoExport
        /\ UNCHANGED <<ordVars, latVars, mdVars, profVars>>

CallDumpd ==
    /\ dret' = [status |-> "ok", value |-> DP_dumpd(dp)]
    /\ UNCHANGED <<dp, calls, ordVars, latVars, mdVars, profVars>>

DPNext == CallAdd \/ CallSet \/ CallSetNone \/ CallDumpd

---------------------------------------------------------------------------
(* ModuleDefaults *)

Ok(v) == [status |-> "ok", value |-> v]
Raise(e) == [status |-> e, value |-> EmptyDict]

\* bool(x) of a value stored in "default": False, 0 and None are false
PyBool(v) == IF v \in {PyFalse, PyZero, None} THEN PyFalse ELSE PyTrue

\* the truth value of a str or None
StrTruthy(x) == x \notin {None, ""}

MD_init ==
    [module_name |-> None, available_streams |-> <<>>, default_stream |-> None,
     default |-> NoAttr, default_profiles |-> EmptyDict]

\* a bug dumpd() could have: the assert is missing
MD_dumpd_NoAssert(m) ==
    IF m.default = NoAttr THEN Raise("AttributeError")
    ELSE Ok(m.module_name :>
              ("available-streams" :> Sorted(SetOf(m.available_streams))
               @@ "default" :> PyBool(m.default)
               @@ "default-stream" :> m.default_stream
               @@ "default-profiles" :> DP_dumpd(m.default_profiles)))

MD_dumpd(m) ==
    IF ~(StrTruthy(m.default_stream) /\ m.default_stream \in SetOf(m.available_streams))
    THEN Raise("AssertionError")
    ELSE IF m.default = NoAttr THEN Raise("AttributeError")
    ELSE Ok(m.module_name :>
              ("available-streams" :> Sorted(SetOf(m.available_streams))
               @@ "default" :> PyBool(m.default)
               @@ "default-stream" :> m.default_stream
               @@ "default-profiles" :> DP_dumpd(m.default_profiles)))

\* the object after the call, and "ok" or the exception that ended it
MD_loadd(m, name, data) ==
    LET m1 == [m EXCEPT !.module_name = name]
        m2 == [m1 EXCEPT !.default = PyBool(data["default"])]
        m3 == [m2 EXCEPT !.available_streams = Sorted(SetOf(data["available-streams"]))]
        m4 == [m3 EXCEPT !.default_stream = data["default-stream"]]
        m5 == [m4 EXCEPT !.default_profiles = EmptyDict]
        m6 == [m5 EXCEPT !.default_profiles = DP_loadd(EmptyDict, data["default-profiles"])]
    IN IF "default" \notin DOMAIN data THEN [status |-> "KeyError", obj |-> m1]
       ELSE IF "available-streams" \notin DOMAIN data THEN [status |-> "KeyError", obj |-> m2]
       ELSE IF "default-stream" \notin DOMAIN data THEN [status |-> "KeyError", obj |-> m3]
       ELSE IF "default-profiles" \notin DOMAIN data THEN [status |-> "KeyError", obj |-> m5]
       ELSE [status |-> "ok", obj |-> m6]

---------------------------------------------------------------------------
(* InstallationProfile: id, add_module_defaults, dumpd, loadd *)

\* "{}-{}-{}.{}".format(name, version, release, arch), as its pieces
IP_id(p) == <<p.name, "-", p.version, "-", p.release, ".", p.arch>>

add_module_defaults(p, m) == [p EXCEPT !.modules = Put(@, m.module_name, m)]

\* the orders in which a dict of these keys can be iterated
Orders(K) == {o \in ListsOfLen(K, Cardinality(K)) : SetOf(o) = K}

\* data["modules"].update(value.dumpd()) for the values from position i on
RECURSIVE DumpModules(_, _, _, _)
DumpModules(mods, order, i, acc) ==
    IF i > Len(order) THEN Ok(acc)
    ELSE LET r == MD_dumpd(mods[order[i]])
         IN IF r.status # "ok" THEN r
            ELSE DumpModules(mods, order, i + 1, Update(acc, r.value))

\* order: the iteration order of self.items()
IP_dumpd(p, order) ==
    IF p.release = NoRelease THEN Raise("TypeError")
    ELSE LET r == DumpModules(p.modules, order, 1, EmptyDict)
         IN IF r.status # "ok" THEN r
            ELSE Ok("document" :> "modulemd-profile"
                    @@ "version" :> 0
                    @@ "data" :> ("name" :> p.name
                                  @@ "version" :> p.version
                                  @@ "release" :> IntRelease(p)
                                  @@ "arch" :> p.arch
                                  @@ "description" :> p.description
                                  @@ "modules" :> r.value))

HeaderKeys == <<"name", "version", "release", "arch", "description">>

\* the assignments of lines 239-243, from the i-th on
RECURSIVE LoadHeader(_, _, _)
LoadHeader(p, doc, i) ==
    IF i > Len(HeaderKeys) THEN [status |-> "ok", obj |-> p]
    ELSE IF HeaderKeys[i] \notin DOMAIN doc THEN [status |-> "KeyError", obj |-> p]
    ELSE LET k == HeaderKeys[i]
             v == IF k = "release" THEN PyInt(doc[k]) ELSE doc[k]
         IN LoadHeader([p EXCEPT ![k] = v], doc, i + 1)

\* the loop of lines 245-248, from the i-th module on
RECURSIVE LoadModules(_, _, _, _)
LoadModules(p, mods, order, i) ==
    IF i > Len(order) THEN [status |-> "ok", obj |-> p]
    ELSE LET r == MD_loadd(MD_init, order[i], mods[order[i]])
         IN IF r.status # "ok" THEN [status |-> r.status, obj |-> p]
            ELSE LoadModules(add_module_defaults(p, r.obj), mods, order, i + 1)

\* order: the iteration order of modules.items()
IP_loadd(p, data, order) ==
    IF "data" \notin DOMAIN data THEN [status |-> "KeyError", obj |-> p]
    ELSE LET h == LoadHeader(p, data["data"], 1)
         IN IF h.status # "ok" THEN h
            ELSE IF "modules" \notin DOMAIN data["data"] THEN [status |-> "KeyError", obj |-> h.obj]
            ELSE LoadModules(h.obj, data["data"]["modules"], order, 1)

\* the module keys of a document, as far as it has any
ModuleKeys(data) ==
    IF "data" \in DOMAIN data /\ "modules" \in DOMAIN data["data"]
    THEN DOMAIN data["data"]["modules"] ELSE {}

---------------------------------------------------------------------------
(* Documents *)

ModuleNames == {"base-runtime", "httpd"}

Block(avail, dflt, ds, dps) ==
    "available-streams" :> avail @@ "default" :> dflt
    @@ "default-stream" :> ds @@ "default-profiles" :> dps

\* a consistent module block, with an unsorted stream list and a duplicate
BlockRuntime ==
    Block(<<"f27", "f26", "f26">>, PyTrue, "f26",
          "f26" :> <<"container", "buildroot">> @@ "f27" :> <<>>)

\* a block whose default-stream is not among its available-streams
BlockStray == Block(<<"f26">>, PyZero, "f27", EmptyDict)

ModuleBlocks ==
    {BlockRuntime, BlockStray, Pop(BlockRuntime, "default-stream"), Pop(BlockStray, "default")}

BlockKeys == {"available-streams", "default", "default-stream", "default-profiles"}

HeaderValue ==
    "name" :> "fedora-server" @@ "version" :> V26 @@ "release" :> 5
    @@ "arch" :> "x86_64" @@ "description" :> "Fedora 26 Server"

Document(mods) ==
    "document" :> "modulemd-profile" @@ "version" :> 0
    @@ "data" :> (HeaderValue @@ "modules" :> mods)

\* a document whose data block lacks key k
DocumentWithout(k, mods) ==
    "document" :> "modulemd-profile" @@ "version" :> 0
    @@ "data" :> Pop(HeaderValue @@ "modules" :> mods, k)

ModuleMaps ==
    {EmptyDict,
     "httpd" :> BlockRuntime,
     "base-runtime" :> BlockRuntime @@ "httpd" :> BlockStray,
     "base-runtime" :> BlockRuntime @@ "httpd" :> Pop(BlockRuntime, "default-stream")}

Documents ==
    {Document(m) : m \in ModuleMaps}
    \cup {DocumentWithout(k, "httpd" :> BlockRuntime) : k \in SetOf(HeaderKeys) \cup {"modules"}}
    \cup {"document" :> "modulemd-profile" @@ "version" :> 0}

---------------------------------------------------------------------------
(* Module-defaults specification: one ModuleDefaults object is populated,  *)
(* loaded, added to a profile and dumped.  The profile's dict holds the    *)
(* object itself, so what the profile dumps is the object's current state. *)

StreamLists == {<<"f27", "f26">>, <<"f26", "f26">>}

ReturnedNone(o) == [op |-> o, status |-> "ok", value |-> EmptyDict, arg |-> EmptyDict]

\* the profile that holds md under the keys of owner
OwnerProfile ==
    [IP_init EXCEPT !.name = HeaderValue["name"], !.version = HeaderValue["version"],
                    !.release = HeaderValue["release"], !.arch = HeaderValue["arch"],
                    !.description = HeaderValue["description"],
                    !.modules = [k \in owner |-> md]]

AssignModuleName ==
    \E n \in ModuleNames :
        /\ md' = [md EXCEPT !.module_name = n]
        /\ mret' = ReturnedNone("module_name=")
        /\ UNCHANGED <<owner, mcalls, ordVars, latVars, dpVars, profVars>>

AssignAvailableStreams ==
    \E l \in StreamLists :
        /\ md' = [md EXCEPT !.available_streams = l]
        /\ mret' = ReturnedNone("available_streams=")
        /\ UNCHANGED <<owner, mcalls, ordVars, latVars, dpVars, profVars>>

AssignDefaultStream ==
    \E x \in Streams \cup {None, ""} :
        /\ md' = [md EXCEPT !.default_stream = x]
        /\ mret' = ReturnedNone("default_stream=")
        /\ UNCHANGED <<owner, mcalls, ordVars, latVars, dpVars, profVars>>

AssignDefault ==
    \E v \in {PyTrue, PyZero} :
        /\ md' = [md EXCEPT !.default = v]
        /\ mcalls' = mcalls \cup {"default="}
        /\ mret' = ReturnedNone("default=")
        /\ UNCHANGED <<owner, ordVars, latVars, dpVars, profVars>>

AddDefaultProfile ==
    \E x \in Streams :
        /\ md' = [md EXCEPT !.default_profiles = DP_add(@, x, "buildroot")]
        /\ mret' = ReturnedNone("default_profiles.add")
        /\ UNCHANGED <<owner, mcalls, ordVars, latVars, dpVars, profVars>>

CallMDLoadd ==
    \E n \in ModuleNames, data \in ModuleBlocks :
        LET r == MD_loadd(md, n, data)
        IN /\ md' = r.obj
           /\ mcalls' = mcalls \cup {"loadd"}
           /\ mret' = [op |-> "loadd", status |-> r.status, value |-> EmptyDict, arg |-> data]
           /\ UNCHANGED <<owner, ordVars, latVars, dpVars, profVars>>

CallMDDumpd ==
    LET r == MD_dumpd(md)
    IN /\ mret' = [op |-> "dumpd", status |-> r.status, value |-> r.value, arg |-> EmptyDict]
       /\ UNCHANGED <<md, owner, mcalls, ordVars, latVars, dpVars, profVars>>

CallAddModuleDefaults ==
    /\ owner' = owner \cup {md.module_name}
    /\ mret' = ReturnedNone("add_module_defaults")
    /\ UNCHANGED <<md, mcalls, ordVars, latVars, dpVars, profVars>>

CallOwnerDumpd ==
    \E order \in Orders(owner) :
        LET r == IP_dumpd(OwnerProfile, order)
        IN /\ mret' = [op |-> "profile.dumpd", status |-> r.status, value |-> r.value,
                       arg |-> EmptyDict]
           /\ UNCHANGED <<md, owner, mcalls, ordVars, latVars, dpVars, profVars>>

MDNext ==
    \/ AssignModuleName \/ AssignAvailableStreams \/ AssignDefaultStream
    \/ AssignDefault \/ AddDefaultProfile \/ CallMDLoadd \/ CallMDDumpd
    \/ CallAddModuleDefaults \/ CallOwnerDumpd

---------------------------------------------------------------------------
(* Profile specification: one InstallationProfile is populated by          *)
(* assignment, add_module_defaults and loadd, dumped, and dumped and       *)
(* loaded again into a new InstallationProfile.                            *)

\* ModuleDefaults objects populated field by field, with and without the
\* default attribute
ProfileSets == "f26" :> {"buildroot", "container"} @@ "f27" :> {}

MDInputs ==
    {[module_name |-> n, available_streams |-> l, default_stream |-> x,
      default |-> v, default_profiles |-> ProfileSets] :
        n \in ModuleNames, l \in StreamLists, x \in {"f27", None},
        v \in {NoAttr, PyTrue}}

NoReturn == [op |-> "__init__", status |-> "ok", value |-> EmptyDict]

AssignField ==
    \E k \in SetOf(HeaderKeys) :
        /\ prof' = [prof EXCEPT ![k] = HeaderValue[k]]
        /\ ret' = [op |-> "assign", status |-> "ok", value |-> EmptyDict]
        /\ UNCHANGED <<ordVars, latVars, dpVars, mdVars>>

ProfAddModuleDefaults ==
    \E m \in MDInputs :
        /\ prof' = add_module_defaults(prof, m)
        /\ ret' = [op |-> "add_module_defaults", status |-> "ok", value |-> EmptyDict]
        /\ UNCHANGED <<ordVars, latVars, dpVars, mdVars>>

ProfDumpd ==
    \E order \in Orders(DOMAIN prof.modules) :
        LET r == IP_dumpd(prof, order)
        IN /\ ret' = [op |-> "dumpd", status |-> r.status, value |-> r.value]
           /\ UNCHANGED <<prof, ordVars, latVars, dpVars, mdVars>>

ProfLoadd ==
    \E data \in Documents :
        \E order \in Orders(ModuleKeys(data)) :
            LET r == IP_loadd(prof, data, order)
            IN /\ prof' = r.obj
               /\ ret' = [op |-> "loadd", status |-> r.status, value |-> EmptyDict]
               /\ UNCHANGED <<ordVars, latVars, dpVars, mdVars>>

\* dumpd(), and loadd() of its result into InstallationProfile()
ProfRoundTrip ==
    \E order \in Orders(DOMAIN prof.modules) :
        LET d == IP_dumpd(prof, order)
        IN \E again \in Orders(ModuleKeys(d.value)) :
               LET r == IF d.status = "ok" THEN IP_loadd(IP_init, d.value, again)
                        ELSE [status |-> d.status, obj |-> IP_init]
               IN /\ ret' = [op |-> "dumpd-loadd", status |-> r.status, value |-> r.obj]
                  /\ UNCHANGED <<prof, ordVars, latVars, dpVars, mdVars>>

ProfNext ==
    \/ AssignField \/ ProfAddModuleDefaults \/ ProfDumpd \/ ProfLoadd \/ ProfRoundTrip

---------------------------------------------------------------------------
(* Specifications.  Each starts every object as its constructor leaves it, *)
(* draws the inputs of the functions it applies, and takes the steps of    *)
(* one part of the module.                                                 *)

InitOrd ==
    /\ a \in OrdProfiles /\ b \in OrdProfiles /\ res = NoCall
    /\ lst = <<>> /\ latest = NoLatest
    /\ dp = EmptyDict /\ calls = <<>> /\ dret = NoExport
    /\ md = MD_init /\ owner = {} /\ mcalls = {} /\ mret = ReturnedNone("__init__")
    /\ prof = IP_init /\ ret = NoReturn

InitLatest ==
    /\ a = IP_init /\ b = IP_init /\ res = NoCall
    /\ lst \in ListsUpTo(LatProfiles, MaxList) /\ latest = NoLatest
    /\ dp = EmptyDict /\ calls = <<>> /\ dret = NoExport
    /\ md = MD_init /\ owner = {} /\ mcalls = {} /\ mret = ReturnedNone("__init__")
    /\ prof = IP_init /\ ret = NoReturn

InitObjects ==
    /\ a = IP_init /\ b = IP_init /\ res = NoCall
    /\ lst = <<>> /\ latest = NoLatest
    /\ dp = EmptyDict /\ calls = <<>> /\ dret = NoExport
    /\ md = MD_init /\ owner = {} /\ mcalls = {} /\ mret = ReturnedNone("__init__")
    /\ prof = IP_init /\ ret = NoReturn

SpecOrd == InitOrd /\ [][OrdNext]_vars

SpecLatest == InitLatest /\ [][LatNext]_vars

SpecDP == InitObjects /\ [][DPNext]_vars

SpecMD == InitObjects /\ [][MDNext]_vars

SpecProf == InitObjects /\ [][ProfNext]_vars

---------------------------------------------------------------------------
(* Properties *)

WellFormed(p) == split_version(p).ok
SV(p) == split_version(p).v

\* element-wise order of integer sequences: the first index at which they
\* differ decides, and a strict prefix is the lesser
SeqLess(s, t) ==
    \E i \in 1..(Len(s) + 1) :
        /\ \A j \in 1..(i - 1) : j <= Len(t) /\ s[j] = t[j]
        /\ \/ i = Len(s) + 1 /\ Len(t) >= i
           \/ i <= Len(s) /\ i <= Len(t) /\ s[i] < t[i]

\* the (split_version, release) pair of q is strictly greater than that of p
PairLess(p, q) ==
    \/ SeqLess(SV(p), SV(q))
    \/ SV(p) = SV(q) /\ p.release < q.release

ExactlyOne(x, y, z) ==
    Cardinality({i \in 1..3 : (i = 1 /\ x) \/ (i = 2 /\ y) \/ (i = 3 /\ z)}) = 1

(* C1: for two profiles of one name with well-formed versions, exactly one
   of a < b, a == b, b < a holds (here once a == b has been evaluated). *)
C1_Totality ==
    (res.op = "eq" /\ a.name = b.name /\ WellFormed(a) /\ WellFormed(b))
    => ExactlyOne(Truthy(IP_lt(a, b)), Truthy(res.val), Truthy(IP_lt(b, a)))

\* the upgrade chain of the module docstring: 26-1, 26-2, 26.1-1, 26.2-1, 27-1
DocChain == <<<<V26, 1>>, <<V26, 2>>, <<V26_1, 1>>, <<V26_2, 1>>, <<V27, 1>>>>

ChainPos(p) ==
    IF \E i \in 1..Len(DocChain) : DocChain[i] = <<p.version, p.release>>
    THEN CHOOSE i \in 1..Len(DocChain) : DocChain[i] = <<p.version, p.release>>
    ELSE 0

(* C2: for two profiles of one name, a < b returns a value, and a true one
   exactly when split_version(a) is less than split_version(b) element-wise
   (a strict prefix being the lesser), or they are equal and a's release is
   the smaller; the docstring's upgrade chain is strictly increasing. *)
C2_LtIsVersionThenRelease ==
    (a.name = b.name /\ WellFormed(a) /\ WellFormed(b))
    => /\ IP_lt(a, b) \in {PyTrue, PyFalse, PyZero}
       /\ Truthy(IP_lt(a, b)) <=> PairLess(a, b)
       /\ (res.op = "lt" => (Truthy(res.val) <=> PairLess(a, b)))
       /\ (ChainPos(a) > 0 /\ ChainPos(a) < ChainPos(b))
              => (Truthy(IP_lt(a, b)) /\ ~Truthy(IP_lt(b, a)))

C2_Witness ==
    /\ res.op = "lt" /\ res.val = PyTrue
    /\ a.name = b.name
    /\ a.version = V26 /\ a.release = 2
    /\ b.version = V26_1 /\ b.release = 1

(* C4: comparing two profiles of different names raises the comparison
   error, with < and with ==, whatever their versions and releases. *)
C4_DifferentNamesRaise ==
    (a.name # b.name)
    => /\ IP_lt(a, b) = ComparisonError
       /\ IP_eq(a, b) = ComparisonError
       /\ (res.op \in {"lt", "eq"} => res.val = ComparisonError)

C4_Witness ==
    /\ res.op = "eq" /\ res.val = ComparisonError
    /\ a.name # b.name
    /\ a.version = b.version /\ a.release = b.release

(* C9: for two profiles of one name with equal versions and unequal
   releases, a < b holds exactly when b > a holds, and exactly one of
   a < b, a > b holds. *)
C9_ReleaseTieBreakSymmetric ==
    (a.name = b.name /\ WellFormed(a) /\ WellFormed(b) /\ SV(a) = SV(b)
        /\ a.release # b.release)
    => /\ Truthy(IP_lt(a, b)) <=> Truthy(IP_gt(b, a))
       /\ Truthy(IP_lt(a, b)) # Truthy(IP_gt(a, b))
       /\ (res.op = "gt" => (Truthy(res.val) <=> a.release > b.release))

C9_Witness ==
    /\ res.op = "gt" /\ res.val = PyTrue
    /\ a.name = b.name
    /\ a.version = V26 /\ b.version = V26
    /\ a.release = 2 /\ b.release = 1

Server(v, r) == Profile("fedora-server", v, r)

(* C3: latest_by_name does not raise; the keys of its result are the names
   in the list, and the value of a name is a profile of the list with that
   name whose (split_version, release) pair no profile of that name
   exceeds; of 26-1, 26-2 and 26.1-1 it selects 26.1-1. *)
C3_LatestByName ==
    (latest.op = "latest_by_name")
    => /\ latest.status = "ok"
       /\ DOMAIN latest.value = {lst[i].name : i \in 1..Len(lst)}
       /\ \A n \in DOMAIN latest.value :
              /\ latest.value[n].name = n
              /\ \E i \in 1..Len(lst) : lst[i] = latest.value[n]
              /\ \A j \in 1..Len(lst) :
                     lst[j].name = n => ~PairLess(latest.value[n], lst[j])
       /\ ({lst[i] : i \in 1..Len(lst)} =
              {Server(V26, 1), Server(V26, 2), Server(V26_1, 1)})
          => latest.value["fedora-server"] = Server(V26_1, 1)

C3_Witness ==
    /\ lst = <<Server(V26, 1), Server(V26_1, 1), Server(V26, 2)>>
    /\ latest.op = "latest_by_name" /\ latest.status = "ok"
    /\ latest.value["fedora-server"] = Server(V26_1, 1)

---------------------------------------------------------------------------
(* Properties of DefaultProfiles, stated over the calls made *)

OnStream(s) == {i \in 1..Len(calls) : calls[i].stream = s}

Latest(I) == IF I = {} THEN 0 ELSE CHOOSE i \in I : \A j \in I : j <= i

\* the last set(s, None), and the last set(s, ...) of either kind
LastUnset(s) == Latest({i \in OnStream(s) : calls[i].op = "unset"})
LastSet(s) == Latest({i \in OnStream(s) : calls[i].op \in {"set", "unset"}})

Present(s) == \E j \in OnStream(s) : j > LastUnset(s)

Expected(s) ==
    (IF LastSet(s) > 0 /\ calls[LastSet(s)].op = "set"
     THEN SetOf(calls[LastSet(s)].arg) ELSE {})
    \cup {calls[j].arg[1] : j \in {i \in OnStream(s) : i > LastSet(s) /\ calls[i].op = "add"}}

StrictlySorted(l) == \A i \in 1..(Len(l) - 1) : Lex[l[i]] < Lex[l[i + 1]]

(* C6: after any sequence of add and set calls, dumpd() has a key for a
   stream exactly when a call on it follows its last set(stream, None), or
   it was added or set and never set to None; the value is the sorted,
   duplicate-free list of the profiles of the last non-null set and of the
   adds after it, so set(stream, None) removes the key, set(stream, [])
   keeps it with an empty list, and a set replaces what was there. *)
C6_OverrideSemantics ==
    LET e == DP_dumpd(dp)
    IN /\ DOMAIN e = {s \in Streams : Present(s)}
       /\ \A s \in DOMAIN e : SetOf(e[s]) = Expected(s) /\ StrictlySorted(e[s])
       /\ (dret.status = "ok" => dret.value = e)

C6_Witness ==
    /\ Len(calls) = 3
    /\ calls[1] = [op |-> "add", stream |-> "f26", arg |-> <<"container">>]
    /\ calls[2] = [op |-> "unset", stream |-> "f27", arg |-> <<>>]
    /\ calls[3] = [op |-> "set", stream |-> "f26", arg |-> <<>>]
    /\ dret.status = "ok"
    /\ DOMAIN dret.value = {"f26"}
    /\ dret.value["f26"] = <<>>

---------------------------------------------------------------------------
(* Properties of ModuleDefaults *)

Consistent(m) ==
    StrTruthy(m.default_stream) /\ m.default_stream \in SetOf(m.available_streams)

(* C7: dumpd() of a ModuleDefaults whose default_stream is empty, None or
   not among its available_streams raises and produces no mapping, and so
   does dumpd() of a profile that holds it; the constructor, the
   assignments and loadd() of a complete block raise nothing. *)
C7_StrictDumpPermissiveLoad ==
    /\ (mret.op = "dumpd" /\ ~Consistent(md))
           => (mret.status = "AssertionError" /\ mret.value = EmptyDict)
    /\ (mret.op = "profile.dumpd" /\ owner # {} /\ ~Consistent(md))
           => (mret.status = "AssertionError" /\ mret.value = EmptyDict)
    /\ (mret.op \notin {"dumpd", "profile.dumpd", "loadd"}) => mret.status = "ok"
    /\ (mret.op = "loadd" /\ BlockKeys \subseteq DOMAIN mret.arg) => mret.status = "ok"

C7_Witness ==
    /\ mret.op = "profile.dumpd" /\ mret.status = "AssertionError"
    /\ "loadd" \in mcalls
    /\ owner # {}
    /\ md.available_streams = <<"f26">> /\ md.default_stream = "f27"

(* C10: a ModuleDefaults made by the constructor and given a module_name,
   available_streams and a default_stream among them, without loadd(), is
   dumped: dumpd() returns a one-entry mapping keyed by module_name whose
   "default" is a boolean. *)
C10_FieldPopulatedDumps ==
    (mret.op = "dumpd" /\ mcalls = {} /\ md.module_name # None
        /\ md.available_streams # <<>> /\ Consistent(md))
    => /\ mret.status = "ok"
       /\ DOMAIN mret.value = {md.module_name}
       /\ mret.value[md.module_name]["default"] \in {PyTrue, PyFalse}

---------------------------------------------------------------------------
(* Properties of InstallationProfile.dumpd and loadd *)

HeaderSet(p) ==
    /\ p.name # None /\ p.version # NoVersion /\ p.release # NoRelease
    /\ p.arch # None /\ p.description # None

ValidProfile(p) == \A k \in DOMAIN p.modules : Consistent(p.modules[k])

SameModule(m, n) ==
    /\ n.module_name = m.module_name
    /\ n.default = PyBool(m.default)
    /\ n.default_stream = m.default_stream
    /\ SetOf(n.available_streams) = SetOf(m.available_streams)
    /\ DOMAIN n.default_profiles = DOMAIN m.default_profiles
    /\ \A x \in DOMAIN m.default_profiles : n.default_profiles[x] = m.default_profiles[x]

SameContent(p, q) ==
    /\ IP_id(q) = IP_id(p)
    /\ q.version = p.version /\ q.release = p.release
    /\ q.arch = p.arch /\ q.description = p.description
    /\ DOMAIN q.modules = DOMAIN p.modules
    /\ \A k \in DOMAIN p.modules : SameModule(p.modules[k], q.modules[k])

(* C5: for a valid profile (every ModuleDefaults it holds has a non-empty
   default_stream among its available_streams), loadd(dumpd()) into a new
   InstallationProfile gives the same id, version, release, arch and
   description, the same module names and, per module, the same default
   flag, default stream, set of streams and sets of default profiles. *)
C5_RoundTrip ==
    (ret.op = "dumpd-loadd" /\ HeaderSet(prof) /\ ValidProfile(prof))
    => (ret.status = "ok" /\ SameContent(prof, ret.value))

(* C8: a loadd() that fails on a missing key leaves the profile's name,
   version, release, arch, description and modules as they were. *)
C8_FailedLoaddChangesNothing ==
    [][(ret'.op = "loadd" /\ ret'.status = "KeyError") => prof' = prof]_vars

====
